---- MODULE Spec2Model ----
(***************************************************************************)
(* Karkat, util/text: the IRC control-code minifier (ircstrip, striplen,   *)
(* control_reduce, minify), join_until, and the table layout engines       *)
(* (namedtable, justifiedtable, aligntable).                               *)
(*                                                                         *)
(* A Python str is modelled as a sequence of codepoints, so that sorted(), *)
(* \d and the control bytes mean what they mean in the source.             *)
(***************************************************************************)
EXTENDS Integers, Sequences, FiniteSets, TLC

VARIABLES
    fn,         \* the function being called
    args,       \* its arguments, a record
    pc,         \* position inside the function's body
    data,       \* the function's working locals
    ret,        \* Returned(v) or Raised(exception) once pc = "return"
    badEscape   \* what re does with the template r"\x03\1,": "raise" | "literal"

vars == <<fn, args, pc, data, ret, badEscape>>

-----------------------------------------------------------------------------
(* class ControlCode, and the other codepoints the source names.           *)

ITALICS == 29
BOLD == 2
UNDERLINE == 31
COLOR == 3
RESET == 15
REVERSE == 22
OVERLINE == 773
NEWLINE == 10
SPACE == 32
COMMA == 44
ZERO == 48
NINE == 57
\* U+0660 ARABIC-INDIC DIGIT ZERO, a decimal digit outside ASCII.
ARABICZERO == 1632
BACKSLASH == 92
LETTERX == 120
LETTERA == 97

Toggles == {ITALICS, BOLD, UNDERLINE, REVERSE}

\* Python's None, where the source holds None or a str.
None == <<-1>>

Returned(v) == [exc |-> "none", val |-> v]
Raised(e) == [exc |-> e, val |-> <<>>]

-----------------------------------------------------------------------------
(* Helpers for str and re.                                                 *)

\* s[i], or -1 past either end (no character).
At(s, i) == IF i \in 1..Len(s) THEN s[i] ELSE -1

\* The first character, the digit zero, of each row of ten decimal digits
\* (category Nd) of the Unicode database of the interpreter (14.0.0): the
\* patterns are str patterns compiled without re.ASCII.
DigitBlocks ==
    {48, 1632, 1776, 1984, 2406, 2534, 2662, 2790, 2918, 3046, 3174, 3302,
     3430, 3558, 3664, 3792, 3872, 4160, 4240, 6112, 6160, 6470, 6608,
     6784, 6800, 6992, 7088, 7232, 7248, 42528, 43216, 43264, 43472, 43504,
     43600, 44016, 65296, 66720, 68912, 69734, 69872, 69942, 70096, 70384,
     70736, 70864, 71248, 71360, 71472, 71904, 72016, 72784, 73040, 73120,
     92768, 92864, 93008, 120782, 120792, 120802, 120812, 120822, 123200,
     123632, 125264, 130032}

\* \d: 0 to 9, or a decimal digit of another script.
IsDigit(c) ==
    \/ c \in ZERO..NINE
    \/ c > 127 /\ \E z \in DigitBlocks : c \in z..(z + 9)

\* The first character of [\x1d\x02\x1f\x0f\x16]|\x03...
IsControl(c) == c \in Toggles \cup {RESET, COLOR}

\* How many characters \d?\d? (max = 2) or \d\d? takes at i, greedily.
DigitsAt(s, i, max) ==
    IF max = 0 \/ ~IsDigit(At(s, i)) THEN 0
    ELSE IF max >= 2 /\ IsDigit(At(s, i + 1)) THEN 2
    ELSE 1

\* Length of the match of \x03\d?\d?(?:,\d\d?)? at i, where s[i] = \x03.
ColorLen(s, i) ==
    LET d == DigitsAt(s, i + 1, 2)
        j == i + 1 + d
        b == IF At(s, j) = COMMA /\ IsDigit(At(s, j + 1))
             THEN 1 + DigitsAt(s, j + 1, 2)
             ELSE 0
    IN 1 + d + b

\* Length of the match of ([\x1d\x02\x1f\x0f\x16]|\x03\d?\d?(?:,\d\d?)?) at i,
\* 0 when there is none.
TokenLen(s, i) ==
    IF At(s, i) = COLOR THEN ColorLen(s, i)
    ELSE IF IsControl(At(s, i)) THEN 1
    ELSE 0

\* End (exclusive) of the match of (token)+ that starts at i.
RECURSIVE RunEnd(_, _)
RunEnd(s, i) ==
    IF TokenLen(s, i) = 0 THEN i ELSE RunEnd(s, i + TokenLen(s, i))

\* "".join(seqs)
RECURSIVE Concat(_)
Concat(seqs) ==
    IF seqs = <<>> THEN <<>> ELSE Head(seqs) \o Concat(Tail(seqs))

\* sep.join(seqs)
RECURSIVE Join(_, _)
Join(sep, seqs) ==
    IF seqs = <<>> THEN <<>>
    ELSE IF Len(seqs) = 1 THEN seqs[1]
    ELSE seqs[1] \o sep \o Join(sep, Tail(seqs))

\* s.split(c): the pieces of s between occurrences of the character c.
RECURSIVE SplitOn(_, _)
SplitOn(s, c) ==
    IF \A i \in 1..Len(s) : s[i] # c THEN <<s>>
    ELSE LET k == CHOOSE i \in 1..Len(s) :
                      s[i] = c /\ \A j \in 1..(i - 1) : s[j] # c
         IN <<SubSeq(s, 1, k - 1)>> \o SplitOn(SubSeq(s, k + 1, Len(s)), c)

\* As Sorted, the call of sorted() left out: the source order.
SortedMutant(s) == s

\* sorted(s): ascending codepoints (insertion sort).
RECURSIVE Insert(_, _)
Insert(c, s) ==
    IF s = <<>> THEN <<c>>
    ELSE IF c <= Head(s) THEN <<c>> \o s
    ELSE <<Head(s)>> \o Insert(c, Tail(s))

RECURSIVE Sorted(_)
Sorted(s) == IF s = <<>> THEN <<>> ELSE Insert(Head(s), Sorted(Tail(s)))

-----------------------------------------------------------------------------
(* ircstrip, striplen                                                      *)

\* Length of the match of
\* (\x03(\d{0,2}(,\d{1,2})?)?|\x1f|\x0f|\x16|\x02|\u0305) at i, 0 when none.
StripLenAt(s, i) ==
    IF At(s, i) = COLOR THEN ColorLen(s, i)
    ELSE IF At(s, i) \in {UNDERLINE, RESET, REVERSE, BOLD, OVERLINE} THEN 1
    ELSE 0

RECURSIVE StripFrom(_, _)
StripFrom(s, i) ==
    IF i > Len(s) THEN <<>>
    ELSE IF StripLenAt(s, i) > 0 THEN StripFrom(s, i + StripLenAt(s, i))
    ELSE <<s[i]>> \o StripFrom(s, i + 1)

ircstrip(s) == StripFrom(s, 1)

striplen(s) == Len(ircstrip(s))

-----------------------------------------------------------------------------
(* control_reduce                                                          *)

\* Index of the last \x0f in s, 0 when there is none.
LastReset(s) ==
    IF \E i \in 1..Len(s) : s[i] = RESET
    THEN CHOOSE i \in 1..Len(s) :
             s[i] = RESET /\ \A j \in (i + 1)..Len(s) : s[j] # RESET
    ELSE 0

\* re.findall(r"\x03\d?\d?(?:,\d\d?)?", s), scanning from i.
RECURSIVE FindColors(_, _)
FindColors(s, i) ==
    IF i > Len(s) THEN <<>>
    ELSE IF s[i] = COLOR
         THEN <<SubSeq(s, i, i + ColorLen(s, i) - 1)>>
              \o FindColors(s, i + ColorLen(s, i))
    ELSE FindColors(s, i + 1)

\* re.sub(r"(\x03\d?\d?(?:,\d\d?)?)", "", s), scanning from i.
RECURSIVE DropColors(_, _)
DropColors(s, i) ==
    IF i > Len(s) THEN <<>>
    ELSE IF s[i] = COLOR THEN DropColors(s, i + ColorLen(s, i))
    ELSE <<s[i]>> \o DropColors(s, i + 1)

\* As CancelPairs, with the pattern ([\x1d\x02\x1f\x16])\1+: a whole row of
\* one toggle is deleted.
RECURSIVE CancelPairsMutant(_, _)
CancelPairsMutant(s, i) ==
    IF i > Len(s) THEN <<>>
    ELSE IF s[i] \in Toggles /\ At(s, i + 1) = s[i]
         THEN LET j == CHOOSE n \in (i + 2)..(Len(s) + 1) :
                           /\ At(s, n) # s[i]
                           /\ \A k \in i..(n - 1) : s[k] = s[i]
              IN CancelPairsMutant(s, j)
    ELSE <<s[i]>> \o CancelPairsMutant(s, i + 1)

\* re.sub(r"([\x1d\x02\x1f\x16])\1", "", s), scanning from i.
RECURSIVE CancelPairs(_, _)
CancelPairs(s, i) ==
    IF i > Len(s) THEN <<>>
    ELSE IF s[i] \in Toggles /\ At(s, i + 1) = s[i] THEN CancelPairs(s, i + 2)
    ELSE <<s[i]>> \o CancelPairs(s, i + 1)

\* One turn of "for i in colors": i is a colour code without its \x03,
\* fb = <<foreground, background>>.
MergeOne(fb, i) ==
    IF i = <<>> THEN <<None, None>>
    ELSE IF \A k \in 1..Len(i) : i[k] # COMMA THEN <<i, fb[2]>>
    ELSE IF i[1] = COMMA THEN <<fb[1], Tail(i)>>
    ELSE <<SplitOn(i, COMMA)[1], SplitOn(i, COMMA)[2]>>

RECURSIVE MergeColors(_, _)
MergeColors(fb, colors) ==
    IF colors = <<>> THEN fb
    ELSE MergeColors(MergeOne(fb, Tail(Head(colors))), Tail(colors))

\* Step 3b: the one colour code that stands for all of colors ("" for none).
MergedColor(colors) ==
    IF colors = <<>> THEN <<>>
    ELSE LET fb == MergeColors(<<None, None>>, colors)
         IN IF fb[1] = None /\ fb[2] = None THEN <<COLOR>>
            ELSE IF fb[1] = None THEN <<COLOR, COMMA>> \o fb[2]
            ELSE IF fb[2] = None THEN <<COLOR>> \o fb[1]
            ELSE <<COLOR>> \o fb[1] \o <<COMMA>> \o fb[2]

\* The toggles of a block after steps 2 and 3a: sorted, pairs cancelled.
ReducedToggles(block) == CancelPairs(Sorted(DropColors(block, 1)), 1)

control_reduce(match) ==
    LET r == LastReset(match)
        reset == IF r > 0 THEN <<RESET>> ELSE <<>>
        block == IF r > 0 THEN SubSeq(match, r + 1, Len(match)) ELSE match
    IN reset \o MergedColor(FindColors(block, 1)) \o ReducedToggles(block)

-----------------------------------------------------------------------------
(* minify, step by step                                                    *)

\* Step 1: re.sub(r"(token)+", control_reduce, s), scanning from i.
RECURSIVE ReduceBlocks(_, _)
ReduceBlocks(s, i) ==
    IF i > Len(s) THEN <<>>
    ELSE IF TokenLen(s, i) > 0
         THEN control_reduce(SubSeq(s, i, RunEnd(s, i) - 1))
              \o ReduceBlocks(s, RunEnd(s, i))
    ELSE <<s[i]>> \o ReduceBlocks(s, i + 1)

\* re.split(r"(token)", s) from i, where text is the literal piece gathered
\* so far: text, token, text, ..., text.
RECURSIVE SplitTokens(_, _, _)
SplitTokens(s, i, text) ==
    IF i > Len(s) THEN <<text>>
    ELSE IF TokenLen(s, i) > 0
         THEN <<text, SubSeq(s, i, i + TokenLen(s, i) - 1)>>
              \o SplitTokens(s, i + TokenLen(s, i), <<>>)
    ELSE SplitTokens(s, i + 1, Append(text, s[i]))

\* Step 2 never assigns colors again after "colors = None, None".
colors == <<None, None>>

\* any(colors): None is falsy, a str is truthy unless empty.
Truthy(x) == x # None /\ x # <<>>

\* [i if i else None for i in codes], then
\* ["" if x == y else x for x, y in zip(codes, colors)]
RewriteCode(code, old) ==
    LET x == IF Truthy(code) THEN code ELSE None
    IN IF x = old THEN <<>> ELSE x

\* s.rstrip(",")
RECURSIVE RStripComma(_)
RStripComma(s) ==
    IF s # <<>> /\ s[Len(s)] = COMMA
    THEN RStripComma(SubSeq(s, 1, Len(s) - 1))
    ELSE s

\* What one piece appends to reduced (<<>> when nothing is appended), given
\* the toggles dict.
ReducedPiece(i, toggles) ==
    IF TokenLen(i, 1) = 0 THEN i
    ELSE IF i[1] \in Toggles /\ Len(i) = 1 THEN i
    ELSE IF i = <<RESET>>
            /\ ~(\E t \in Toggles : toggles[t])
            /\ ~(Truthy(colors[1]) \/ Truthy(colors[2]))
         THEN i
    ELSE IF i[1] = COLOR
         THEN LET codes == SplitOn(Tail(i), COMMA)
              IN \* codes == ("",) compares a list with a tuple: never equal
                 IF FALSE /\ (Truthy(colors[1]) \/ Truthy(colors[2])) THEN i
                 ELSE IF Len(codes) = 1 /\ colors[1] # codes[1] THEN i
                 ELSE IF Len(codes) = 2
                      THEN <<COLOR>> \o RStripComma(
                               RewriteCode(codes[1], colors[1]) \o <<COMMA>>
                               \o RewriteCode(codes[2], colors[2]))
                 ELSE <<>>
    ELSE <<>>

\* The toggles dict after one piece.
TogglesAfter(i, toggles) ==
    IF Len(i) = 1 /\ i[1] \in Toggles
    THEN [toggles EXCEPT ![i[1]] = ~toggles[i[1]]]
    ELSE toggles

RECURSIVE ReduceLoop(_, _)
ReduceLoop(pieces, toggles) ==
    IF pieces = <<>> THEN <<>>
    ELSE ReducedPiece(Head(pieces), toggles)
         \o ReduceLoop(Tail(pieces), TogglesAfter(Head(pieces), toggles))

\* Step 2: the loop over re.split, joined.
DropRedundant(s) ==
    ReduceLoop(SplitTokens(s, 1, <<>>), [t \in Toggles |-> FALSE])

\* Step 3, first re.sub: r"\x030(\d)," -> the template r"\x03\1,", whose \x
\* is no escape of a template: where re keeps it, the four characters
\* backslash, x, 0, 3 are written.
RECURSIVE ShortenWithBackground(_, _)
ShortenWithBackground(s, i) ==
    IF i > Len(s) THEN <<>>
    ELSE IF s[i] = COLOR /\ At(s, i + 1) = ZERO /\ IsDigit(At(s, i + 2))
            /\ At(s, i + 3) = COMMA
         THEN <<BACKSLASH, LETTERX, ZERO, ZERO + 3, s[i + 2], COMMA>>
              \o ShortenWithBackground(s, i + 4)
    ELSE <<s[i]>> \o ShortenWithBackground(s, i + 1)

\* Length of group 1 of (\x03(?:\d?\d?,)?)0(\d[^\d]) matched at i, 0 when the
\* pattern does not match there; the alternatives in the order re tries them.
ShortenGroupLen(s, i) ==
    LET tail(j) == At(s, j) = ZERO /\ IsDigit(At(s, j + 1))
                   /\ At(s, j + 2) # -1 /\ ~IsDigit(At(s, j + 2))
    IN IF At(s, i) # COLOR THEN 0
       ELSE IF IsDigit(At(s, i + 1)) /\ IsDigit(At(s, i + 2))
               /\ At(s, i + 3) = COMMA /\ tail(i + 4) THEN 4
       ELSE IF IsDigit(At(s, i + 1)) /\ At(s, i + 2) = COMMA /\ tail(i + 3)
            THEN 3
       ELSE IF At(s, i + 1) = COMMA /\ tail(i + 2) THEN 2
       ELSE IF tail(i + 1) THEN 1
       ELSE 0

\* Step 3, second re.sub: r"(\x03(?:\d?\d?,)?)0(\d[^\d])" -> r"\1\2".
RECURSIVE ShortenAdjacent(_, _)
ShortenAdjacent(s, i) ==
    IF i > Len(s) THEN <<>>
    ELSE IF ShortenGroupLen(s, i) > 0
         THEN LET g == ShortenGroupLen(s, i)
              IN SubSeq(s, i, i + g - 1) \o SubSeq(s, i + g + 1, i + g + 2)
                 \o ShortenAdjacent(s, i + g + 3)
    ELSE <<s[i]>> \o ShortenAdjacent(s, i + 1)

\* Whether (token)+$ matches from i to the end of s. Giving back part of a
\* colour code never helps: what it gives back starts with a digit or a
\* comma, which starts no token.
TokensToEnd(s, i) == TokenLen(s, i) > 0 /\ RunEnd(s, i) = Len(s) + 1

\* Step 4: re.sub(r"(token)+$", "", s): cut at the leftmost match.
StripTrailing(s) ==
    IF \E i \in 1..Len(s) : TokensToEnd(s, i)
    THEN LET k == CHOOSE i \in 1..Len(s) :
                      TokensToEnd(s, i)
                      /\ \A j \in 1..(i - 1) : ~TokensToEnd(s, j)
         IN SubSeq(s, 1, k - 1)
    ELSE s

\* Steps 1 to 4 on a line without "\n"; esc is what re makes of the "\x" in
\* the template of step 3.
MinifyLine(s, esc) ==
    IF esc = "raise" THEN Raised("re.error")
    ELSE Returned(StripTrailing(ShortenAdjacent(ShortenWithBackground(
             DropRedundant(ReduceBlocks(s, 1)), 1), 1)))

\* "\n".join(map(minify, lines)): the first exception raised passes through.
JoinLines(results) ==
    IF \E k \in 1..Len(results) : results[k].exc # "none"
    THEN results[CHOOSE k \in 1..Len(results) :
                     results[k].exc # "none"
                     /\ \A j \in 1..(k - 1) : results[j].exc = "none"]
    ELSE Returned(Join(<<NEWLINE>>, [k \in 1..Len(results) |-> results[k].val]))

minify(s, esc) ==
    IF \E i \in 1..Len(s) : s[i] = NEWLINE
    THEN LET lines == SplitOn(s, NEWLINE)
         IN JoinLines([k \in 1..Len(lines) |-> MinifyLine(lines[k], esc)])
    ELSE MinifyLine(s, esc)

-----------------------------------------------------------------------------
(* Inputs                                                                  *)

MaxLen == 4

\* All strings over alphabet of at most n characters.
StringsUpTo(alphabet, n) == UNION {[1..k -> alphabet] : k \in 0..n}

\* Literal text, two ASCII digits (one of them 0), a decimal digit of another
\* script, the comma, the colour byte, two toggles, the reset and the line
\* break.
MinifyAlphabet ==
    {LETTERA, ZERO, ZERO + 1, ARABICZERO, COMMA, COLOR, BOLD, ITALICS, RESET,
     NEWLINE}

NoReturn == [exc |-> "pending", val |-> <<>>]

-----------------------------------------------------------------------------
(* minify as a state machine                                               *)

InitMinify ==
    /\ fn = "minify"
    /\ args \in {[data |-> s] : s \in StringsUpTo(MinifyAlphabet, MaxLen)}
    /\ badEscape \in {"raise", "literal"}
    /\ pc = "call"
    /\ data = args.data
    /\ ret = NoReturn

\* if "\n" in data: return "\n".join(map(minify, data.split("\n")))
MinifyLines ==
    /\ fn = "minify" /\ pc = "call"
    /\ \E i \in 1..Len(data) : data[i] = NEWLINE
    /\ ret' = minify(data, badEscape)
    /\ pc' = "return"
    /\ UNCHANGED <<fn, args, data, badEscape>>

MinifyStep1 ==
    /\ fn = "minify" /\ pc = "call"
    /\ \A i \in 1..Len(data) : data[i] # NEWLINE
    /\ data' = ReduceBlocks(data, 1)
    /\ pc' = "step2"
    /\ UNCHANGED <<fn, args, ret, badEscape>>

MinifyStep2 ==
    /\ fn = "minify" /\ pc = "step2"
    /\ data' = DropRedundant(data)
    /\ pc' = "step3"
    /\ UNCHANGED <<fn, args, ret, badEscape>>

MinifyStep3 ==
    /\ fn = "minify" /\ pc = "step3"
    /\ badEscape = "literal"
    /\ data' = ShortenAdjacent(ShortenWithBackground(data, 1), 1)
    /\ pc' = "step4"
    /\ UNCHANGED <<fn, args, ret, badEscape>>

\* re.error: bad escape \x, raised by the first re.sub of step 3 whatever
\* data holds.
MinifyStep3Raise ==
    /\ fn = "minify" /\ pc = "step3"
    /\ badEscape = "raise"
    /\ ret' = Raised("re.error")
    /\ pc' = "return"
    /\ UNCHANGED <<fn, args, data, badEscape>>

MinifyStep4 ==
    /\ fn = "minify" /\ pc = "step4"
    /\ data' = StripTrailing(data)
    /\ ret' = Returned(data')
    /\ pc' = "return"
    /\ UNCHANGED <<fn, args, badEscape>>

NextMinify ==
    \/ MinifyLines
    \/ MinifyStep1
    \/ MinifyStep2
    \/ MinifyStep3
    \/ MinifyStep3Raise
    \/ MinifyStep4

SpecMinify == InitMinify /\ [][NextMinify]_vars

\* minify on lines made of whole segments: literal text, colour codes that
\* set the foreground, the background or both, the bare colour code, a
\* toggle, the reset and the line break.
MaxSegments == 4

Segments ==
    {<<LETTERA>>, <<COLOR>>, <<COLOR, ZERO + 1>>,
     <<COLOR, ZERO + 1, COMMA, ZERO + 2>>, <<COLOR, ZERO + 1, COMMA, ZERO + 3>>,
     <<BOLD>>, <<RESET>>, <<NEWLINE>>}

InitMinifyRuns ==
    /\ fn = "minify"
    /\ args \in {[data |-> Concat(segs)] :
                    segs \in StringsUpTo(Segments, MaxSegments)}
    /\ badEscape \in {"raise", "literal"}
    /\ pc = "call"
    /\ data = args.data
    /\ ret = NoReturn

SpecMinifyRuns == InitMinifyRuns /\ [][NextMinify]_vars

-----------------------------------------------------------------------------
(* control_reduce as a state machine                                       *)

MaxMarkers == 4

\* The markers a block is made of: the four toggles, the reset, and colour
\* codes bare, with a foreground (one of them a digit outside ASCII), with a
\* background and with both.
Markers ==
    {<<ITALICS>>, <<BOLD>>, <<UNDERLINE>>, <<REVERSE>>, <<RESET>>, <<COLOR>>,
     <<COLOR, ZERO + 1>>, <<COLOR, COMMA, ZERO + 2>>,
     <<COLOR, ZERO + 3, COMMA, ZERO + 4>>, <<COLOR, ARABICZERO>>}

\* data.group(0): a match of (token)+, one marker at least.
Blocks == {Concat(ms) : ms \in StringsUpTo(Markers, MaxMarkers) \ {<<>>}}

InitReduce ==
    /\ fn = "control_reduce"
    /\ args \in {[data |-> b] : b \in Blocks}
    /\ badEscape = "raise"
    /\ pc = "call"
    /\ data = [reset |-> <<>>, data |-> args.data, colors |-> <<>>]
    /\ ret = NoReturn

\* Step 1: with a reset in data, what follows the last one is kept.
ReduceReset ==
    /\ fn = "control_reduce" /\ pc = "call"
    /\ LastReset(data.data) > 0
    /\ data' = [data EXCEPT
                   !.reset = <<RESET>>,
                   !.data = SubSeq(@, LastReset(@) + 1, Len(@))]
    /\ pc' = "step2"
    /\ UNCHANGED <<fn, args, ret, badEscape>>

\* Step 1: no reset in data.
ReduceNoReset ==
    /\ fn = "control_reduce" /\ pc = "call"
    /\ LastReset(data.data) = 0
    /\ pc' = "step2"
    /\ UNCHANGED <<fn, args, data, ret, badEscape>>

\* Step 2: the colour codes are pulled out, the rest is sorted.
ReducePull ==
    /\ fn = "control_reduce" /\ pc = "step2"
    /\ data' = [data EXCEPT
                   !.colors = FindColors(data.data, 1),
                   !.data = Sorted(DropColors(@, 1))]
    /\ pc' = "step3a"
    /\ UNCHANGED <<fn, args, ret, badEscape>>

\* Step 3a: cancelling control codes are deleted.
ReduceCancel ==
    /\ fn = "control_reduce" /\ pc = "step3a"
    /\ data' = [data EXCEPT !.data = CancelPairs(@, 1)]
    /\ pc' = "step3b"
    /\ UNCHANGED <<fn, args, ret, badEscape>>

\* Step 3b: if colors: ... data = color + data; return reset + data
ReduceMerge ==
    /\ fn = "control_reduce" /\ pc = "step3b"
    /\ data' = [data EXCEPT !.data = MergedColor(data.colors) \o @]
    /\ ret' = Returned(data.reset \o data'.data)
    /\ pc' = "return"
    /\ UNCHANGED <<fn, args, badEscape>>

NextReduce ==
    \/ ReduceReset
    \/ ReduceNoReset
    \/ ReducePull
    \/ ReduceCancel
    \/ ReduceMerge

SpecReduce == InitReduce /\ [][NextReduce]_vars

-----------------------------------------------------------------------------
(* ircstrip and striplen as a state machine                                *)

\* As MinifyAlphabet without the line break, with the combining overline.
StripAlphabet ==
    {LETTERA, ZERO, ZERO + 1, ARABICZERO, COMMA, COLOR, BOLD, ITALICS, RESET,
     OVERLINE}

InitStrip ==
    /\ fn = "striplen"
    /\ args \in {[data |-> s] : s \in StringsUpTo(StripAlphabet, MaxLen)}
    /\ badEscape = "raise"
    /\ pc = "call"
    /\ data = args.data
    /\ ret = NoReturn

\* ircstrip(data)
Ircstrip ==
    /\ fn = "striplen" /\ pc = "call"
    /\ data' = ircstrip(data)
    /\ pc' = "stripped"
    /\ UNCHANGED <<fn, args, ret, badEscape>>

\* return len(...)
Striplen ==
    /\ fn = "striplen" /\ pc = "stripped"
    /\ ret' = Returned(Len(data))
    /\ pc' = "return"
    /\ UNCHANGED <<fn, args, data, badEscape>>

NextStrip == Ircstrip \/ Striplen

SpecStrip == InitStrip /\ [][NextStrip]_vars

-----------------------------------------------------------------------------
(* join_until                                                              *)

MaxParts == 3
MaxCeiling == 5

\* measure(s), for the two measures the inputs draw from.
Measure(measure, s) == IF measure = "len" THEN Len(s) ELSE striplen(s)

\* ceiling=None is [given |-> FALSE, value |-> 0].
NoCeiling == [given |-> FALSE, value |-> 0]

\* As Candidate, with "if not result" for "if result is None".
CandidateMutant(result, separator, element) ==
    IF result = None \/ result = <<>> THEN element
    ELSE result \o separator \o element

\* candidate = element if result is None else result + separator + element
Candidate(result, separator, element) ==
    IF result = None THEN element ELSE result \o separator \o element

\* As Breached, the comparison off by one.
BreachedMutant(ceiling, measure, candidate) ==
    ceiling.given /\ Measure(measure, candidate) > ceiling.value + 1

\* ceiling is not None and measure(candidate) > ceiling
Breached(ceiling, measure, candidate) ==
    ceiling.given /\ Measure(measure, candidate) > ceiling.value

\* The while loop from the state (result, queue) on, as a function.
RECURSIVE JoinFrom(_, _, _, _, _)
JoinFrom(result, queue, separator, ceiling, measure) ==
    IF queue = <<>> THEN result
    ELSE IF Breached(ceiling, measure, Candidate(result, separator, Head(queue)))
         THEN result
    ELSE JoinFrom(Candidate(result, separator, Head(queue)), Tail(queue),
                  separator, ceiling, measure)

join_until(separator, parts, ceiling, measure) ==
    JoinFrom(None, parts, separator, ceiling, measure)

PartStrings ==
    {<<>>, <<LETTERA>>, <<LETTERA, LETTERA>>, <<BOLD, LETTERA>>,
     <<LETTERA, LETTERA, LETTERA>>}

Separators == {<<>>, <<COMMA, SPACE>>}

Ceilings == {NoCeiling} \cup {[given |-> TRUE, value |-> n] : n \in 0..MaxCeiling}

InitJoin ==
    /\ fn = "join_until"
    /\ args \in [separator : Separators,
                 parts : StringsUpTo(PartStrings, MaxParts),
                 ceiling : Ceilings,
                 measure : {"len", "striplen"}]
    /\ badEscape = "raise"
    /\ pc = "loop"
    /\ data = [result |-> None, queue |-> args.parts]
    /\ ret = NoReturn

\* One turn of "while queue", the queue not empty, the candidate within the
\* ceiling: result = candidate.
JoinAccept ==
    /\ fn = "join_until" /\ pc = "loop"
    /\ data.queue # <<>>
    /\ LET candidate == Candidate(data.result, args.separator, Head(data.queue))
       IN /\ ~Breached(args.ceiling, args.measure, candidate)
          /\ data' = [result |-> candidate, queue |-> Tail(data.queue)]
    /\ UNCHANGED <<fn, args, pc, ret, badEscape>>

\* One turn of "while queue", the candidate over the ceiling: return result.
JoinBreach ==
    /\ fn = "join_until" /\ pc = "loop"
    /\ data.queue # <<>>
    /\ LET candidate == Candidate(data.result, args.separator, Head(data.queue))
       IN /\ Breached(args.ceiling, args.measure, candidate)
          /\ data' = [data EXCEPT !.queue = Tail(data.queue)]
    /\ ret' = Returned(data.result)
    /\ pc' = "return"
    /\ UNCHANGED <<fn, args, badEscape>>

\* The queue is empty: return result.
JoinExhausted ==
    /\ fn = "join_until" /\ pc = "loop"
    /\ data.queue = <<>>
    /\ ret' = Returned(data.result)
    /\ pc' = "return"
    /\ UNCHANGED <<fn, args, data, badEscape>>

NextJoin == JoinAccept \/ JoinBreach \/ JoinExhausted

SpecJoin == InitJoin /\ [][NextJoin]_vars

-----------------------------------------------------------------------------
(* justifiedtable                                                          *)

MaxItems == 3
MaxWidth == 6
MaxMinsep == 2

\* " " * n: the empty string when n <= 0.
Spaces(n) == [k \in 1..n |-> SPACE]

\* sum(striplen(x) + extra for x in row)
RECURSIVE SumStriplen(_, _)
SumStriplen(row, extra) ==
    IF row = <<>> THEN 0
    ELSE striplen(Head(row)) + extra + SumStriplen(Tail(row), extra)

\* Whether item still goes on the row: the test "length <= width".
FitsRow(row, item, width, minsep) ==
    SumStriplen(row, minsep) + striplen(item) <= width

\* One turn of "for data in array": rows after item is placed.
PlaceItem(rows, item, width, minsep) ==
    IF FitsRow(rows[Len(rows)], item, width, minsep)
    THEN [rows EXCEPT ![Len(rows)] = Append(@, item)]
    ELSE Append(rows, <<item>>)

\* The loop "for i, string in enumerate(row[1:])" from index i (0-based) on:
\* what it adds to table[-1].
RECURSIVE JustifyTail(_, _, _, _)
JustifyTail(rest, i, sepwidth, spares) ==
    IF rest = <<>> THEN <<>>
    ELSE Spaces(sepwidth) \o (IF i < spares THEN <<SPACE>> ELSE <<>>)
         \o Head(rest) \o JustifyTail(Tail(rest), i + 1, sepwidth, spares)

\* The string a row of more than one item becomes. divmod is by a positive
\* number, so \div and % are Python's.
JustifyRow(row, width) ==
    LET rowlength == SumStriplen(row, 0)
        sepwidth == (width - rowlength) \div (Len(row) - 1)
        spares == (width - rowlength) % (Len(row) - 1)
    IN row[1] \o JustifyTail(Tail(row), 0, sepwidth, spares)

\* One turn of "for row in rows": table after row.
EmitRow(table, row, width) ==
    IF Len(row) > 1 THEN Append(table, JustifyRow(row, width))
    ELSE IF row # <<>> THEN Append(table, row[1])
    ELSE table

\* Plain items of widths 0 to 3, an item that starts with a toggle, one that
\* ends with a colour code and one that is a digit.
ItemStrings ==
    {<<>>, <<LETTERA>>, <<LETTERA, LETTERA>>, <<BOLD, LETTERA>>,
     <<LETTERA, LETTERA, LETTERA>>, <<LETTERA, COLOR>>, <<ZERO + 1>>}

InitJustified ==
    /\ fn = "justifiedtable"
    /\ args \in [array : StringsUpTo(ItemStrings, MaxItems),
                 width : 0..MaxWidth,
                 minsep : 0..MaxMinsep]
    /\ badEscape = "raise"
    /\ pc = "pack"
    /\ data = [rows |-> <<<<>>>>, table |-> <<>>, i |-> 1, r |-> 1]
    /\ ret = NoReturn

\* for data in array: ...
JustifiedPlace ==
    /\ fn = "justifiedtable" /\ pc = "pack"
    /\ data.i <= Len(args.array)
    /\ data' = [data EXCEPT
                   !.rows = PlaceItem(@, args.array[data.i], args.width,
                                      args.minsep),
                   !.i = @ + 1]
    /\ UNCHANGED <<fn, args, pc, ret, badEscape>>

\* The first loop is over.
JustifiedPacked ==
    /\ fn = "justifiedtable" /\ pc = "pack"
    /\ data.i > Len(args.array)
    /\ pc' = "emit"
    /\ UNCHANGED <<fn, args, data, ret, badEscape>>

\* for row in rows: ...
JustifiedEmit ==
    /\ fn = "justifiedtable" /\ pc = "emit"
    /\ data.r <= Len(data.rows)
    /\ data' = [data EXCEPT
                   !.table = EmitRow(@, data.rows[data.r], args.width),
                   !.r = @ + 1]
    /\ UNCHANGED <<fn, args, pc, ret, badEscape>>

\* return table
JustifiedReturn ==
    /\ fn = "justifiedtable" /\ pc = "emit"
    /\ data.r > Len(data.rows)
    /\ ret' = Returned(data.table)
    /\ pc' = "return"
    /\ UNCHANGED <<fn, args, data, badEscape>>

NextJustified ==
    \/ JustifiedPlace
    \/ JustifiedPacked
    \/ JustifiedEmit
    \/ JustifiedReturn

SpecJustified == InitJustified /\ [][NextJustified]_vars

\* justifiedtable(array, width, minsep) as a function.
RECURSIVE PlaceAll(_, _, _, _)
PlaceAll(rows, array, width, minsep) ==
    IF array = <<>> THEN rows
    ELSE PlaceAll(PlaceItem(rows, Head(array), width, minsep), Tail(array),
                  width, minsep)

RECURSIVE EmitAll(_, _, _)
EmitAll(table, rows, width) ==
    IF rows = <<>> THEN table
    ELSE EmitAll(EmitRow(table, Head(rows), width), Tail(rows), width)

justifiedtable(array, width, minsep) ==
    EmitAll(<<>>, PlaceAll(<<<<>>>>, array, width, minsep), width)

-----------------------------------------------------------------------------
(* spacepad, namedtable                                                    *)

MaxLabels == 3
MaxSize == 12
MaxRowmax == 2

BOXLEFT == 9122
BOXMID == 9130
BOXRIGHT == 9125

\* int(a / b) for b > 0: the quotient cut towards zero.
IntDiv(a, b) == IF a >= 0 THEN a \div b ELSE -((-a) \div b)

\* "%d" % n, n >= 0
RECURSIVE Decimal(_)
Decimal(n) ==
    IF n < 10 THEN <<ZERO + n>>
    ELSE Decimal(n \div 10) \o <<ZERO + (n % 10)>>

\* "%.2d" % n, n >= 0
TwoDigits(n) == IF n < 10 THEN <<ZERO, ZERO + n>> ELSE Decimal(n)

\* "\x03%.2d" % color, followed by the box character, "\x03"
BorderLeft(color) == <<COLOR>> \o TwoDigits(color) \o <<BOXLEFT, COLOR>>
Divider(color) ==
    <<SPACE, COLOR>> \o TwoDigits(color) \o <<BOXMID, COLOR, SPACE>>
BorderRight(color) == <<COLOR>> \o TwoDigits(color) \o <<BOXRIGHT, COLOR>>

\* "(first %d rows) " % rows
RowNote(rows) ==
    <<40, 102, 105, 114, 115, 116, SPACE>> \o Decimal(rows)
    \o <<SPACE, 114, 111, 119, 115, 41, SPACE>>

spacepad(left, right, length) ==
    left \o Spaces(length - (striplen(left) + striplen(right))) \o right

\* Index of max(results, key=len): the first of the longest. results is not
\* empty.
LongestIndex(results) ==
    CHOOSE k \in 1..Len(results) :
        /\ \A j \in 1..Len(results) : Len(results[j]) <= Len(results[k])
        /\ \A j \in 1..(k - 1) : Len(results[j]) < Len(results[k])

\* len(max(results, key=len))
Biggest(results) == Len(results[LongestIndex(results)])

\* min(len(results), int((size - 2) / (biggest + 3)))
Columns(results, size) ==
    LET fit == IntDiv(size - 2, Biggest(results) + 3)
    IN IF Len(results) <= fit THEN Len(results) ELSE fit

\* int(math.ceil(len(results) / float(columns))), columns > 0
Rows(results, columns) == (Len(results) + columns - 1) \div columns

\* The lines 272 to 278 (and 284 to 287): biggest, columns and rows of
\* results, or the exception they raise.
Measured(results, size) ==
    IF results = <<>> THEN Raised("ValueError")
    ELSE IF Columns(results, size) = 0 THEN Raised("ZeroDivisionError")
    ELSE Returned([biggest |-> Biggest(results),
                   columns |-> Columns(results, size),
                   rows |-> Rows(results, Columns(results, size))])

\* results.remove(max(results, key=len))
RemoveLongest(results) ==
    LET k == LongestIndex(results)
    IN SubSeq(results, 1, k - 1) \o SubSeq(results, k + 1, Len(results))

\* data[0]: the format of line 290 is "%s", a literal \x1f, "\x03%.2d%s".
HeaderRow(header, rheader, color, rownum, columns, biggest) ==
    spacepad(header \o <<UNDERLINE, COLOR>> \o TwoDigits(color) \o rownum,
             rheader, (columns * (biggest + 3)) - 1)

\* cellsize
CellSize(head, columns, biggest) ==
    IF columns * (biggest + 3) - 1 < striplen(head)
    THEN IntDiv(striplen(head) - 1, columns) - 1
    ELSE biggest

\* line, for i counted from 0
LineOf(results, i, columns) ==
    IF Len(results) > (i + 1) * columns
    THEN SubSeq(results, i * columns + 1, (i + 1) * columns)
    ELSE SubSeq(results, i * columns + 1, Len(results))

\* One padded cell; index counted from 0.
PadCell(cell, index, columns, cellsize) ==
    LET padding == Spaces(cellsize - striplen(cell))
    IN IF index + 1 = columns THEN padding \o cell ELSE cell \o padding

\* border_left + divider.join(padded_line) + border_right
TableRow(line, columns, cellsize, color) ==
    BorderLeft(color)
    \o Join(Divider(color),
            [k \in 1..Len(line) |-> PadCell(line[k], k - 1, columns, cellsize)])
    \o BorderRight(color)

\* list.insert(index, c) on the characters of s, index >= 0 counted from 0.
InsertAt(s, index, c) ==
    IF index >= Len(s) THEN Append(s, c)
    ELSE SubSeq(s, 1, index) \o <<c>> \o SubSeq(s, index + 1, Len(s))

\* Lines 315 to 320: the underline of the last full row, the open end of a
\* short last row, the underline in front of the last row.
Finished(table) ==
    LET n == Len(table)
        short == n > 2 /\ Len(table[n]) < Len(table[2])
        t1 == IF short
              THEN [table EXCEPT
                       ![n - 1] = InsertAt(@, Len(table[n]) - 1, UNDERLINE),
                       ![n] = SubSeq(@, 1, Len(@) - 2)
                              \o <<SPACE, BOXMID, COLOR>>]
              ELSE table
    IN [t1 EXCEPT ![n] = <<UNDERLINE>> \o @]

LabelStrings ==
    {<<>>, <<LETTERA>>, <<LETTERA + 1, LETTERA + 1>>, <<BOLD, LETTERA>>,
     <<LETTERA, LETTERA, LETTERA>>}

\* rowmax = 0 stands for rowmax=None: "if rowmax" takes both the same way.
InitNamed ==
    /\ fn = "namedtable"
    /\ args \in [results : StringsUpTo(LabelStrings, MaxLabels),
                 size : 0..MaxSize,
                 rowmax : 0..MaxRowmax,
                 header : {<<>>},
                 rheader : {<<>>},
                 color : {12}]
    /\ badEscape = "raise"
    /\ pc = "call"
    /\ data = [results |-> args.results, biggest |-> 0, columns |-> 0,
               rows |-> 0, rownum |-> <<>>, cellsize |-> 0, table |-> <<>>,
               i |-> 0]
    /\ ret = NoReturn

\* Lines 270 to 279.
NamedMeasure ==
    /\ fn = "namedtable" /\ pc = "call"
    /\ LET m == Measured(data.results, args.size)
       IN IF m.exc # "none"
          THEN /\ ret' = Raised(m.exc)
               /\ pc' = "return"
               /\ data' = data
          ELSE /\ data' = [data EXCEPT !.biggest = m.val.biggest,
                                       !.columns = m.val.columns,
                                       !.rows = m.val.rows]
               /\ pc' = "cap"
               /\ ret' = ret
    /\ UNCHANGED <<fn, args, badEscape>>

\* One turn of "while rows > rowmax".
NamedRemove ==
    /\ fn = "namedtable" /\ pc = "cap"
    /\ args.rowmax # 0 /\ data.rows > args.rowmax
    /\ LET left == RemoveLongest(data.results)
           m == Measured(left, args.size)
       IN IF m.exc # "none"
          THEN /\ ret' = Raised(m.exc)
               /\ pc' = "return"
               /\ data' = [data EXCEPT !.results = left]
          ELSE /\ data' = [data EXCEPT !.results = left,
                                       !.biggest = m.val.biggest,
                                       !.columns = m.val.columns,
                                       !.rows = m.val.rows,
                                       !.rownum = RowNote(m.val.rows)]
               /\ pc' = "cap"
               /\ ret' = ret
    /\ UNCHANGED <<fn, args, badEscape>>

\* Lines 289 to 297: the header and the cell size. rownum holds the note of
\* the last turn of the loop, which is what line 288 writes after it.
NamedHeader ==
    /\ fn = "namedtable" /\ pc = "cap"
    /\ ~(args.rowmax # 0 /\ data.rows > args.rowmax)
    /\ LET head == HeaderRow(args.header, args.rheader, args.color,
                             data.rownum, data.columns, data.biggest)
       IN data' = [data EXCEPT
                      !.table = <<head>>,
                      !.cellsize = CellSize(head, data.columns, data.biggest)]
    /\ pc' = "rows"
    /\ UNCHANGED <<fn, args, ret, badEscape>>

\* One turn of "for i in range(rows)".
NamedRow ==
    /\ fn = "namedtable" /\ pc = "rows"
    /\ data.i < data.rows
    /\ data' = [data EXCEPT
                   !.table = Append(@, TableRow(
                       LineOf(data.results, data.i, data.columns),
                       data.columns, data.cellsize, args.color)),
                   !.i = @ + 1]
    /\ UNCHANGED <<fn, args, pc, ret, badEscape>>

\* Lines 315 to 321.
NamedFinish ==
    /\ fn = "namedtable" /\ pc = "rows"
    /\ data.i >= data.rows
    /\ data' = [data EXCEPT !.table = Finished(@)]
    /\ ret' = Returned(data'.table)
    /\ pc' = "return"
    /\ UNCHANGED <<fn, args, badEscape>>

NextNamed ==
    \/ NamedMeasure
    \/ NamedRemove
    \/ NamedHeader
    \/ NamedRow
    \/ NamedFinish

SpecNamed == InitNamed /\ [][NextNamed]_vars

-----------------------------------------------------------------------------
(* aligntable                                                              *)

MaxRows == 3
MaxCells == 2

\* The default separator: " \x0308", the box character, "\x03 ".
DefaultSeparator == <<SPACE, COLOR, ZERO, ZERO + 8, BOXMID, COLOR, SPACE>>

\* max(len(i) for i in rows), rows not empty
LongestRow(rows) ==
    CHOOSE n \in {Len(rows[k]) : k \in 1..Len(rows)} :
        \A k \in 1..Len(rows) : Len(rows[k]) <= n

\* As ColumnWidth, measuring the cells with len for striplen.
ColumnWidthMutant(rows, i) ==
    CHOOSE w \in {Len(rows[k][i]) : k \in {j \in 1..Len(rows) : i <= Len(rows[j])}} :
        \A k \in 1..Len(rows) : i <= Len(rows[k]) => Len(rows[k][i]) <= w

\* max(striplen(x[i]) for x in rows if i < len(x)), i counted from 1 here;
\* some row has a cell i.
ColumnWidth(rows, i) ==
    CHOOSE w \in {striplen(rows[k][i]) : k \in {j \in 1..Len(rows) : i <= Len(rows[j])}} :
        \A k \in 1..Len(rows) : i <= Len(rows[k]) => striplen(rows[k][i]) <= w

\* widths
Widths(rows) == [i \in 1..LongestRow(rows) |-> ColumnWidth(rows, i)]

\* One turn of "for row in rows": the padded cells of row.
PadRow(row, widths) ==
    [i \in 1..Len(row) |-> row[i] \o Spaces(widths[i] - striplen(row[i]))]

CellStrings == {<<LETTERA>>, <<LETTERA + 1, LETTERA + 1>>, <<BOLD, LETTERA>>}

InitAlign ==
    /\ fn = "aligntable"
    /\ args \in [rows : StringsUpTo(StringsUpTo(CellStrings, MaxCells), MaxRows),
                 separator : {DefaultSeparator}]
    /\ badEscape = "raise"
    /\ pc = "call"
    /\ data = [widths |-> <<>>, table |-> <<>>]
    /\ ret = NoReturn

\* widths = [...]: max() of no rows raises ValueError.
AlignWidths ==
    /\ fn = "aligntable" /\ pc = "call"
    /\ IF args.rows = <<>>
       THEN /\ ret' = Raised("ValueError")
            /\ pc' = "return"
            /\ data' = data
       ELSE /\ data' = [data EXCEPT !.widths = Widths(args.rows)]
            /\ pc' = "pad"
            /\ ret' = ret
    /\ UNCHANGED <<fn, args, badEscape>>

\* for row in rows: ...
AlignPad ==
    /\ fn = "aligntable" /\ pc = "pad"
    /\ Len(data.table) < Len(args.rows)
    /\ data' = [data EXCEPT
                   !.table = Append(@, PadRow(args.rows[Len(@) + 1],
                                              data.widths))]
    /\ UNCHANGED <<fn, args, pc, ret, badEscape>>

\* table = [separator.join(x) for x in table]; return table
AlignJoin ==
    /\ fn = "aligntable" /\ pc = "pad"
    /\ Len(data.table) = Len(args.rows)
    /\ ret' = Returned([k \in 1..Len(data.table) |->
                           Join(args.separator, data.table[k])])
    /\ pc' = "return"
    /\ UNCHANGED <<fn, args, data, badEscape>>

NextAlign == AlignWidths \/ AlignPad \/ AlignJoin

SpecAlign == InitAlign /\ [][NextAlign]_vars

\* The three layout engines together.
InitLayout == InitNamed \/ InitJustified \/ InitAlign

NextLayout == NextNamed \/ NextJustified \/ NextAlign

SpecLayout == InitLayout /\ [][NextLayout]_vars

-----------------------------------------------------------------------------
(* The RenderState of section 3 of the specification, and its replay.      *)

InitialRenderState ==
    [bold |-> FALSE, italics |-> FALSE, underline |-> FALSE, reverse |-> FALSE,
     fg |-> -1, bg |-> -1]

\* The number a string of digits writes.
RECURSIVE DigitsValue(_)
DigitsValue(d) ==
    IF d = <<>> THEN 0
    ELSE 10 * DigitsValue(SubSeq(d, 1, Len(d) - 1))
         + (d[Len(d)] - CHOOSE z \in DigitBlocks : d[Len(d)] \in z..(z + 9))

\* The RenderState after one marker.
ApplyMarker(st, m) ==
    IF m = <<RESET>> THEN InitialRenderState
    ELSE IF m = <<BOLD>> THEN [st EXCEPT !.bold = ~st.bold]
    ELSE IF m = <<ITALICS>> THEN [st EXCEPT !.italics = ~st.italics]
    ELSE IF m = <<UNDERLINE>> THEN [st EXCEPT !.underline = ~st.underline]
    ELSE IF m = <<REVERSE>> THEN [st EXCEPT !.reverse = ~st.reverse]
    ELSE LET code == Tail(m)
             parts == SplitOn(code, COMMA)
         IN IF code = <<>> THEN [st EXCEPT !.fg = -1, !.bg = -1]
            ELSE IF Len(parts) = 1 THEN [st EXCEPT !.fg = DigitsValue(code)]
            ELSE IF parts[1] = <<>>
                 THEN [st EXCEPT !.bg = DigitsValue(parts[2])]
            ELSE [st EXCEPT !.fg = DigitsValue(parts[1]),
                            !.bg = DigitsValue(parts[2])]

\* The RenderState each literal character of the pieces is displayed in.
RECURSIVE Replay(_, _)
Replay(pieces, st) ==
    IF pieces = <<>> THEN <<>>
    ELSE IF TokenLen(Head(pieces), 1) > 0
         THEN Replay(Tail(pieces), ApplyMarker(st, Head(pieces)))
    ELSE [k \in 1..Len(Head(pieces)) |-> st] \o Replay(Tail(pieces), st)

Rendered(s) == Replay(SplitTokens(s, 1, <<>>), InitialRenderState)

\* The literal text of s: what lies outside every marker of the tokenizer.
RECURSIVE LiteralText(_)
LiteralText(pieces) ==
    IF pieces = <<>> THEN <<>>
    ELSE IF TokenLen(Head(pieces), 1) > 0 THEN LiteralText(Tail(pieces))
    ELSE Head(pieces) \o LiteralText(Tail(pieces))

HasNewline(s) == \E i \in 1..Len(s) : s[i] = NEWLINE

Min(a, b) == IF a <= b THEN a ELSE b

-----------------------------------------------------------------------------
(* Claims                                                                  *)

\* C1: state equivalence of minify. For every single-line string s, minify(s)
\* is a string, and the k-th character it displays is displayed in the same
\* RenderState as the k-th character s displays, for every k both have.
C1_StateEquivalence ==
    (fn = "minify" /\ pc = "return" /\ ~HasNewline(args.data)) =>
        /\ ret.exc = "none"
        /\ \A k \in 1..Min(Len(Rendered(args.data)), Len(Rendered(ret.val))) :
              Rendered(ret.val)[k] = Rendered(args.data)[k]

\* C2: idempotence of minify. For every string s, minify(s) is a string m and
\* minify(m) is m again.
C2_Idempotent ==
    (fn = "minify" /\ pc = "return") =>
        /\ ret.exc = "none"
        /\ minify(ret.val, badEscape) = ret

\* C3: display width is invariant under minify. For every string s,
\* minify(s) is a string and striplen(minify(s)) = striplen(s).
C3_WidthInvariant ==
    (fn = "minify" /\ pc = "return") =>
        /\ ret.exc = "none"
        /\ striplen(ret.val) = striplen(args.data)

\* C4: ircstrip removes exactly the markers of minify's tokenizer, so
\* striplen(s) is the number of characters of s outside every marker.
C4_StripAgreesWithTokenizer ==
    (fn = "striplen" /\ pc = "return") =>
        /\ data = LiteralText(SplitTokens(args.data, 1, <<>>))
        /\ ret = Returned(Len(LiteralText(SplitTokens(args.data, 1, <<>>))))

\* separator.join(parts[:k]), None standing for the absent result when k = 0.
JoinOfPrefix(separator, parts, k) ==
    IF k = 0 THEN None ELSE Join(separator, SubSeq(parts, 1, k))

\* Whether p is an initial part of the string s.
StartsWith(s, p) == Len(p) <= Len(s) /\ SubSeq(s, 1, Len(p)) = p

\* C5: join_until respects the ceiling. It raises nothing; a result that is
\* not None measures at most the ceiling; and when the first part alone
\* measures more than the ceiling the result is None.
C5_RespectsCeiling ==
    (fn = "join_until" /\ pc = "return") =>
        /\ ret.exc = "none"
        /\ (args.ceiling.given /\ ret.val # None) =>
               Measure(args.measure, ret.val) <= args.ceiling.value
        /\ (/\ args.ceiling.given
            /\ args.parts # <<>>
            /\ Measure(args.measure, args.parts[1]) > args.ceiling.value) =>
               ret.val = None

\* C5, its case: of three parts the first was taken and the second breached
\* the ceiling.
C5_Witness ==
    /\ fn = "join_until" /\ pc = "return"
    /\ args.ceiling.given
    /\ Len(args.parts) = 3 /\ Len(data.queue) = 1
    /\ ret.val # None
    /\ ret.val = args.parts[1]

\* C6: join_until is monotone under extension and keeps the order. The
\* result for parts P is separator.join of the first k parts of P (None for
\* k = 0); the result for P with one more part e appended is the join of the
\* first k2 >= k parts and starts with the result for P; without a ceiling
\* and with P not empty the result is separator.join(P).
C6_MonotonePrefix ==
    (fn = "join_until" /\ pc = "return") =>
        /\ \E k \in 0..Len(args.parts) :
              /\ ret.val = JoinOfPrefix(args.separator, args.parts, k)
              /\ \A e \in PartStrings :
                    LET longer == Append(args.parts, e)
                        r2 == join_until(args.separator, longer, args.ceiling,
                                         args.measure)
                    IN /\ \E k2 \in k..Len(longer) :
                             r2 = JoinOfPrefix(args.separator, longer, k2)
                       /\ ret.val # None =>
                             (r2 # None /\ StartsWith(r2, ret.val))
        /\ (~args.ceiling.given /\ args.parts # <<>>) =>
               ret.val = Join(args.separator, args.parts)

\* C6, its case: two parts were joined under a ceiling, and some third part
\* still fits after them.
C6_Witness ==
    /\ fn = "join_until" /\ pc = "return"
    /\ args.ceiling.given
    /\ Len(args.parts) = 2
    /\ ret.val = Join(args.separator, args.parts)
    /\ \E e \in PartStrings :
          /\ e # <<>>
          /\ join_until(args.separator, Append(args.parts, e), args.ceiling,
                        args.measure)
             = ret.val \o args.separator \o e

\* s without its spaces.
RECURSIVE WithoutSpaces(_)
WithoutSpaces(s) ==
    IF s = <<>> THEN <<>>
    ELSE (IF Head(s) = SPACE THEN <<>> ELSE <<Head(s)>>)
         \o WithoutSpaces(Tail(s))

\* C7: justifiedtable never exceeds the width budget. Every row it returns
\* has striplen <= width, and the rows hold every item once, in input order:
\* what the rows hold between their spaces is the items, one after another.
C7_WithinWidth ==
    (fn = "justifiedtable" /\ pc = "return") =>
        /\ ret.exc = "none"
        /\ \A k \in 1..Len(ret.val) : striplen(ret.val[k]) <= args.width
        /\ WithoutSpaces(Concat(ret.val)) = Concat(args.array)

\* The pieces of s between the characters of the set seps.
RECURSIVE SplitOnAny(_, _, _)
SplitOnAny(s, seps, piece) ==
    IF s = <<>> THEN <<piece>>
    ELSE IF Head(s) \in seps
         THEN <<piece>> \o SplitOnAny(Tail(s), seps, <<>>)
    ELSE SplitOnAny(Tail(s), seps, Append(piece, Head(s)))

\* s.strip(" ")
RECURSIVE Trim(_)
Trim(s) ==
    IF s # <<>> /\ Head(s) = SPACE THEN Trim(Tail(s))
    ELSE IF s # <<>> /\ s[Len(s)] = SPACE THEN Trim(SubSeq(s, 1, Len(s) - 1))
    ELSE s

\* What the cells of a bordered row display: the pieces between its box
\* characters, the padding taken off.
CellsOf(row) ==
    LET pieces == SplitOnAny(ircstrip(row), {BOXLEFT, BOXMID, BOXRIGHT}, <<>>)
    IN [k \in 1..(Len(pieces) - 2) |-> Trim(pieces[k + 1])]

\* The cells of the data rows of a table, one row after another.
DataCells(table) == Concat([k \in 1..(Len(table) - 1) |-> CellsOf(table[k + 1])])

\* C8: namedtable fits the width budget and loses no label. For labels not
\* empty, every size and no rowmax, namedtable returns a header row and data
\* rows, every row has striplen <= size, and the data cells display the
\* labels, one label a cell, in input order.
C8_FitsAndKeepsLabels ==
    (fn = "namedtable" /\ pc = "return" /\ args.results # <<>>
     /\ args.rowmax = 0) =>
        /\ ret.exc = "none"
        /\ Len(ret.val) >= 2
        /\ \A k \in 1..Len(ret.val) : striplen(ret.val[k]) <= args.size
        /\ DataCells(ret.val)
           = [k \in 1..Len(args.results) |-> ircstrip(args.results[k])]

\* C9: empty input is not an error. namedtable, justifiedtable and
\* aligntable, called with an empty list, raise nothing and return a table
\* without data rows.
C9_EmptyInput ==
    /\ (fn = "namedtable" /\ pc = "return" /\ args.results = <<>>) =>
           (ret.exc = "none" /\ Len(ret.val) <= 1)
    /\ (fn = "justifiedtable" /\ pc = "return" /\ args.array = <<>>) =>
           ret = Returned(<<>>)
    /\ (fn = "aligntable" /\ pc = "return" /\ args.rows = <<>>) =>
           ret = Returned(<<>>)

\* Whether left is what is left of orig after taking away, one at a time,
\* a label that is a longest of those still there.
RECURSIVE LongestTakenFirst(_, _)
LongestTakenFirst(orig, left) ==
    \/ orig = left
    \/ /\ Len(orig) > Len(left)
       /\ \E k \in 1..Len(orig) :
             /\ \A j \in 1..Len(orig) : Len(orig[j]) <= Len(orig[k])
             /\ LongestTakenFirst(
                    SubSeq(orig, 1, k - 1) \o SubSeq(orig, k + 1, Len(orig)),
                    left)

\* Whether sub occurs in s.
Contains(s, sub) ==
    \E i \in 0..(Len(s) - Len(sub)) : SubSeq(s, i + 1, i + Len(sub)) = sub

\* C10: namedtable enforces the row cap. For labels not empty, every size
\* and rowmax >= 1, the function raises nothing and returns at most rowmax
\* data rows; the labels it dropped were each a longest of those left at
\* the time; and if it dropped any, the header holds "(first N rows)" with
\* N the number of data rows.
C10_RowCap ==
    (fn = "namedtable" /\ args.results # <<>> /\ args.rowmax >= 1) =>
        /\ LongestTakenFirst(args.results, data.results)
        /\ pc = "return" =>
              /\ ret.exc = "none"
              /\ Len(ret.val) - 1 <= args.rowmax
              /\ Len(data.results) < Len(args.results) =>
                     Contains(ret.val[1], RowNote(Len(ret.val) - 1))

\* The greatest number of a set of numbers that is not empty.
MaxOf(S) == CHOOSE m \in S : \A x \in S : x <= m

\* The greatest display width of the cells the rows have in column i.
ColumnMax(rows, i) ==
    MaxOf({striplen(rows[k][i]) : k \in {j \in 1..Len(rows) : i <= Len(rows[j])}})

\* Whether out is cell followed only by spaces, of display width w.
IsPadded(out, cell, w) ==
    /\ StartsWith(out, cell)
    /\ \A j \in (Len(cell) + 1)..Len(out) : out[j] = SPACE
    /\ striplen(out) = w

\* C11: aligntable pads by column. For a list of rows that is not empty and
\* has no empty row, the rows may differ in their number of cells: the call
\* raises nothing and returns one string a row; the row has as many cells as
\* it had; its cell of column i is the original cell followed only by spaces,
\* of display width the greatest striplen of the cells the rows have in
\* column i; and the string is the cells joined by the separator, in order.
C11_PadsByColumn ==
    (/\ fn = "aligntable" /\ pc = "return"
     /\ args.rows # <<>>
     /\ \A k \in 1..Len(args.rows) : args.rows[k] # <<>>) =>
        /\ ret.exc = "none"
        /\ Len(ret.val) = Len(args.rows)
        /\ Len(data.table) = Len(args.rows)
        /\ \A k \in 1..Len(args.rows) :
              /\ Len(data.table[k]) = Len(args.rows[k])
              /\ \A i \in 1..Len(args.rows[k]) :
                    IsPadded(data.table[k][i], args.rows[k][i],
                             ColumnMax(args.rows, i))
              /\ ret.val[k] = Join(args.separator, data.table[k])

\* C11, its case: rows of one and of two cells were aligned, a first cell
\* with a bold marker was padded to the width of a wider plain one, and the
\* second column is in one row only.
C11_Witness ==
    /\ fn = "aligntable" /\ pc = "return" /\ ret.exc = "none"
    /\ Len(args.rows) = 3
    /\ Len(args.rows[1]) = 2 /\ Len(args.rows[2]) = 1 /\ Len(args.rows[3]) = 1
    /\ args.rows[2][1] = <<BOLD, LETTERA>>
    /\ striplen(args.rows[3][1]) = 2
    /\ ret.val[2] = <<BOLD, LETTERA, SPACE>>

\* How many times the character c is in s.
Count(s, c) == Cardinality({i \in 1..Len(s) : s[i] = c})

\* The markers of a run after its last Reset, the whole run if it has none.
AfterLastReset(run) ==
    IF \E i \in 1..Len(run) : run[i] = RESET
    THEN LET r == CHOOSE i \in 1..Len(run) :
                      run[i] = RESET /\ \A j \in (i + 1)..Len(run) : run[j] # RESET
         IN SubSeq(run, r + 1, Len(run))
    ELSE run

\* C12: toggle cancellation by parity. For every marker run, control_reduce
\* returns a form that holds each toggle (italics, bold, underline, reverse)
\* once if the run has it an odd number of times after its last Reset, and
\* not at all if it has it an even number of times, whatever colour markers
\* stand between the occurrences.
C12_ToggleParity ==
    (fn = "control_reduce" /\ pc = "return") =>
        /\ ret.exc = "none"
        /\ \A t \in Toggles :
              Count(ret.val, t) = Count(AfterLastReset(args.data), t) % 2

\* C12, its case: a toggle three times, a colour marker between its first
\* and second occurrence, reduced to one instance.
C12_Witness ==
    /\ fn = "control_reduce" /\ pc = "return"
    /\ \E t \in Toggles : \E c \in Markers :
          /\ c[1] = COLOR
          /\ args.data = <<t>> \o c \o <<t, t>>
          /\ Count(ret.val, t) = 1

\* For each literal character of the pieces, the markers that stand between
\* it and the literal character before it.
RECURSIVE RunsBefore(_, _)
RunsBefore(pieces, run) ==
    IF pieces = <<>> THEN <<>>
    ELSE IF TokenLen(Head(pieces), 1) > 0
         THEN RunsBefore(Tail(pieces), Append(run, Head(pieces)))
    ELSE IF Head(pieces) = <<>> THEN RunsBefore(Tail(pieces), run)
    ELSE <<run>> \o [j \in 1..(Len(Head(pieces)) - 1) |-> <<>>]
         \o RunsBefore(Tail(pieces), <<>>)

\* C13: redundant colour markers are elided across runs. In the line as the
\* redundancy step of minify leaves it, for every marker run of the input
\* (without a Reset) that stands before literal text: if the (fg, bg) after
\* the run equals the (fg, bg) in effect before it, the run has no colour
\* marker left; if only the foreground changed, the colour marker left has
\* no background; if only the background changed, it has no foreground.
C13_ElidesRedundantColor ==
    (fn = "minify" /\ pc = "step3") =>
        LET inRuns == RunsBefore(SplitTokens(args.data, 1, <<>>), <<>>)
            outRuns == RunsBefore(SplitTokens(data, 1, <<>>), <<>>)
            states == Rendered(args.data)
        IN \A k \in 1..Min(Len(inRuns), Len(outRuns)) :
              LET before == IF k = 1 THEN InitialRenderState ELSE states[k - 1]
                  after == states[k]
                  left == {outRuns[k][j] : j \in {i \in 1..Len(outRuns[k]) :
                                                     outRuns[k][i][1] = COLOR}}
              IN (/\ inRuns[k] # <<>>
                  /\ \A j \in 1..Len(inRuns[k]) : inRuns[k][j] # <<RESET>>) =>
                     /\ (after.fg = before.fg /\ after.bg = before.bg) =>
                            left = {}
                     /\ (after.fg # before.fg /\ after.bg = before.bg) =>
                            \A c \in left : Count(c, COMMA) = 0
                     /\ (after.fg = before.fg /\ after.bg # before.bg) =>
                            \A c \in left : At(c, 2) = COMMA

\* Whether form is an optional single Reset, then an optional single colour
\* marker, then toggles, each once at most, in the order of the sequence
\* order.
IsCanonical(form, order) ==
    LET r == IF At(form, 1) = RESET THEN 1 ELSE 0
        c == IF At(form, r + 1) = COLOR THEN ColorLen(form, r + 1) ELSE 0
        rest == SubSeq(form, r + c + 1, Len(form))
        place(t) == CHOOSE n \in 1..Len(order) : order[n] = t
    IN /\ \A i \in 1..Len(rest) : rest[i] \in Toggles
       /\ \A i \in 1..Len(rest) : \A j \in (i + 1)..Len(rest) :
             place(rest[i]) < place(rest[j])

\* C14, as the specification states it: the canonical form of every marker
\* run is an optional single Reset, then an optional single colour marker,
\* then the surviving toggles in the order Italics, Bold, Underline, Reverse.
C14_OrderAsStated ==
    (fn = "control_reduce" /\ pc = "return") =>
        /\ ret.exc = "none"
        /\ IsCanonical(ret.val, <<ITALICS, BOLD, UNDERLINE, REVERSE>>)

\* C14, amended: the canonical form of every marker run is an optional
\* single Reset, then an optional single colour marker, then the surviving
\* toggles in the order Bold, Reverse, Italics, Underline (their byte values
\* ascending), whatever their order in the run.
C14_CanonicalOrder ==
    (fn = "control_reduce" /\ pc = "return") =>
        /\ ret.exc = "none"
        /\ IsCanonical(ret.val, <<BOLD, REVERSE, ITALICS, UNDERLINE>>)

\* C14, its case: a run of a reset, italics, a colour marker and bold comes
\* out as the reset, the colour marker, bold, italics.
C14_Witness ==
    /\ fn = "control_reduce" /\ pc = "return"
    /\ args.data = <<RESET, ITALICS, COLOR, ZERO + 1, BOLD>>
    /\ ret.val = <<RESET, COLOR, ZERO + 1, BOLD, ITALICS>>

\* The rows of the packing that hold an item, in order.
PackedRows(rows) == SelectSeq(rows, LAMBDA r : r # <<>>)

\* The items of row with gaps[i] spaces between item i and item i + 1.
RECURSIVE Spaced(_, _)
Spaced(row, gaps) ==
    IF Len(row) = 1 THEN row[1]
    ELSE row[1] \o Spaces(gaps[1]) \o Spaced(Tail(row), Tail(gaps))

\* C15: justified gap distribution. Every row justifiedtable returns for
\* more than one item has display width equal to width, and is its items
\* with gaps of spaces between them, every gap at least minsep wide, any two
\* gaps differing by one space at most, no gap wider than a gap to its left.
C15_GapDistribution ==
    (fn = "justifiedtable" /\ pc = "return") =>
        /\ ret.exc = "none"
        /\ Len(ret.val) = Len(PackedRows(data.rows))
        /\ \A k \in 1..Len(ret.val) :
              LET row == PackedRows(data.rows)[k]
              IN Len(row) > 1 =>
                    /\ striplen(ret.val[k]) = args.width
                    /\ \E gaps \in [1..(Len(row) - 1) -> 0..args.width] :
                          /\ ret.val[k] = Spaced(row, gaps)
                          /\ \A i \in DOMAIN gaps : gaps[i] >= args.minsep
                          /\ \A i, j \in DOMAIN gaps :
                                /\ gaps[i] - gaps[j] <= 1
                                /\ i < j => gaps[i] >= gaps[j]

\* Whether the last thing in line is a marker of the tokenizer.
EndsWithMarker(line) ==
    LET pieces == SplitTokens(line, 1, <<>>)
    IN Len(pieces) > 1 /\ pieces[Len(pieces)] = <<>>

\* C16: trailing-marker elision with per-line independence. For every
\* string s, minify(s) is a string, the join with line breaks of the strings
\* minify returns for the lines of s, each taken alone; and no line of
\* minify(s) ends with a marker.
C16_LinesIndependent ==
    (fn = "minify" /\ pc = "return") =>
        LET lines == SplitOn(args.data, NEWLINE)
            alone == [k \in 1..Len(lines) |-> minify(lines[k], badEscape)]
        IN /\ ret.exc = "none"
           /\ \A k \in 1..Len(lines) : alone[k].exc = "none"
           /\ ret.val = Join(<<NEWLINE>>,
                             [k \in 1..Len(lines) |-> alone[k].val])
           /\ \A k \in 1..Len(SplitOn(ret.val, NEWLINE)) :
                 ~EndsWithMarker(SplitOn(ret.val, NEWLINE)[k])

====
